---- MODULE Spec2Model ----
(***************************************************************************)
(* Transport layer of tecancavro (src/tecancavro/transport.py): the        *)
(* process-wide port registry `ser_mapping`, the retrying send/receive     *)
(* cycle `sendRcv` of TecanAPISerial and TecanAPIMicro, and the discovery  *)
(* scan `findSerialPumps`.                                                 *)
(***************************************************************************)
EXTENDS Integers, Sequences, FiniteSets, TLC

(***************************************************************************)
(* Bounds of the model.                                                    *)
(***************************************************************************)
\* devices constructed in one run of the registry specification
MaxDevices == 3
\* largest max_attempts a device is configured with
MaxAttempts == 2
\* bytes of raw_data the model stores; later bytes are received, not stored
MaxRaw == 7
\* largest device address of a frame the test script is run with
MaxAddr == 3

(***************************************************************************)
(* Program constants.                                                      *)
(***************************************************************************)
\* errno of "resource busy", the one OSError findSerialPumps swallows
EBUSY == 16
\* some errno other than EBUSY
OtherErrno == EBUSY + 1
\* frame markers, as on the wire in serial_test.py
START_BYTE == 2
END_BYTE == 3
\* sleep(0.2) of the except clause, sleep(0.05 * n) backoff, sleep(0.1) settle (ms)
FaultSleep == 200
BackoffUnit == 50
SettleSleep == 100
\* UART.read(50)
ReadMax == 50
\* findSerialPumps(..., max_attempts=2)
DefaultAttempts == 2
\* address byte of device 0 on the wire
AddrBase == 49
\* the byte after the address in the frame serial_test.py writes
SeqByte == 49
\* shortest frame that decodes: START, address, status, END, checksum
MinFrameLen == 5

(***************************************************************************)
(* Exceptions.  serial.SerialException derives from IOError (= OSError).   *)
(***************************************************************************)
Exc(k, n) == [kind |-> k, errno |-> n]
NoExc == Exc("none", 0)
KeyError == Exc("KeyError", 0)
ValueError == Exc("ValueError", 0)
TecanAPITimeout == Exc("TecanAPITimeout", 0)
\* what the transport (serial.Serial / UART: open, write, read) can raise
Faults ==
  { Exc(k, n) : k \in {"SerialException", "OSError"}, n \in {EBUSY, OtherErrno} }
IsOSError(e) == e.kind \in {"SerialException", "OSError"}

(***************************************************************************)
(* Platform: transport.py imports serial/uuid on win, machine.UART on rp2, *)
(* so a process instantiates one of the two classes only.                  *)
(***************************************************************************)
Platforms == {"win", "rp2"}
ClsOf(pf) == IF pf = "win" THEN "Serial" ELSE "Micro"
Classes == {"Serial", "Micro"}
\* listSerialPorts(): the ports found on the platform, in order
listSerialPorts(pf) == IF pf = "win" THEN <<"COM1", "COM2">> ELSE <<"uart0">>
\* ports a caller may name when constructing a device
PortsOf(pf) == IF pf = "win" THEN {"COM1", "COM2"} ELSE {"uart0", "uart1"}
AllPorts == {"COM1", "COM2", "uart0", "uart1"}

(***************************************************************************)
(* ser_info of a device and the configs the registry is exercised with:    *)
(* a base config and one variant per field.                                *)
(***************************************************************************)
Cfg(b, t, m) == [baud |-> b, timeout |-> t, max_attempts |-> m]
BaseCfg == Cfg(9600, 200, MaxAttempts)
RegCfgs ==
  { BaseCfg, Cfg(19200, 200, MaxAttempts), Cfg(9600, 500, MaxAttempts),
    Cfg(9600, 200, 1) }
NoInfo == Cfg(0, 0, 0)

\* set(info.items())
Items(info) ==
  { <<"baud", info.baud>>, <<"timeout", info.timeout>>,
    <<"max_attempts", info.max_attempts>> }

\* ConfigMatches gone wrong: only the baud rate is compared
ConfigMatchesBaudOnly(a, b) == a.baud = b.baud

\* len(set(self.ser_info.items()) & set(reg[port]['info'].items())) == 3
ConfigMatches(a, b) == Cardinality(Items(a) \cap Items(b)) = 3

(***************************************************************************)
(* The registry.  ser_mapping[c][port] is the dict reg[port] of class c;   *)
(* keys is the set of keys the dict holds (it is built key by key).        *)
(***************************************************************************)
Absent ==
  [present |-> FALSE, keys |-> {}, info |-> NoInfo, ser |-> 0, devices |-> <<>>]
EmptyMapping == [c \in Classes |-> [p \in AllPorts |-> Absent]]

\* list.index / del list[ind]
Index(s, x) == CHOOSE i \in 1..Len(s) : s[i] = x /\ \A j \in 1..(i-1) : s[j] # x
Has(s, x) == \E i \in 1..Len(s) : s[i] = x
RemoveAt(s, i) == SubSeq(s, 1, i-1) \o SubSeq(s, i+1, Len(s))

(***************************************************************************)
(* Frame codec.  _buildChecksum is in serial_test.py; emitFrame,           *)
(* emitRepeat and parseFrame belong to tecancavro/tecanapi.py, which the   *)
(* transport imports: they follow the wire format and decode rules of the  *)
(* specification.                                                          *)
(***************************************************************************)
RECURSIVE BitXor(_, _)
\* a ^ b on non-negative integers
BitXor(a, b) ==
  IF a = 0 THEN b
  ELSE IF b = 0 THEN a
  ELSE (((a % 2) + (b % 2)) % 2) + (2 * BitXor(a \div 2, b \div 2))

RECURSIVE buildChecksum(_)
\* checksum = 0; for byte in partial_frame: checksum ^= byte
buildChecksum(partial_frame) ==
  IF partial_frame = <<>> THEN 0
  ELSE BitXor(buildChecksum(SubSeq(partial_frame, 1, Len(partial_frame) - 1)),
              partial_frame[Len(partial_frame)])

\* START . body . END . CHECKSUM
Frame(body) ==
  LET partial == <<START_BYTE>> \o body \o <<END_BYTE>>
  IN  Append(partial, buildChecksum(partial))

\* 0x02 | (0x31 + address) | ASCII payload | 0x03 | XOR checksum
emitFrame(addr, cmd) == Frame(<<AddrBase + addr>> \o cmd)
\* the previously sent frame, unchanged
emitRepeat(last_frame) == last_frame

\* first index of byte b in s at or after position from, 0 if none
RECURSIVE Find(_, _, _)
Find(s, b, from) ==
  IF from > Len(s) THEN 0
  ELSE IF s[from] = b THEN from
  ELSE Find(s, b, from + 1)

Decoded(t, st, d) == [type |-> t, status_byte |-> st, data |-> d]

\* decode: NoData on silence, else the markers, the checksum, the length
parseFrame(raw) ==
  LET s == Find(raw, START_BYTE, 1)
      e == IF s = 0 THEN 0 ELSE Find(raw, END_BYTE, s + 1)
  IN  IF raw = <<>> THEN Decoded("NoData", 0, <<>>)
      ELSE IF s = 0 \/ e = 0 THEN Decoded("MissingMarkers", 0, <<>>)
      ELSE IF Len(raw) # e + 1 \/ raw[e + 1] # buildChecksum(SubSeq(raw, s, e))
      THEN Decoded("BadChecksum", 0, <<>>)
      ELSE IF e - s + 2 < MinFrameLen THEN Decoded("Truncated", 0, <<>>)
      ELSE Decoded("Response", raw[s + 2], SubSeq(raw, s + 3, e - 1))

\* Truthy gone wrong: `if frame_in is not None:`, a decode error passes
TruthyUnlessNoData(frame_in) == frame_in.type # "NoData"

\* `if frame_in:`
Truthy(frame_in) == frame_in.type = "Response"

\* payloads of the commands findSerialPumps sends: '?76' and '&'
CmdConfig == <<63, 55, 54>>
CmdFirmware == <<38>>

\* what a pump may put on the line after a frame was written to it:
\* nothing, a valid reply, the reply with a wrong checksum, its first two
\* bytes, bytes without markers
GoodReply == Frame(<<48, 96, 49>>)
Replies ==
  { <<>>, GoodReply,
    [GoodReply EXCEPT ![Len(GoodReply)] = BitXor(@, 1)],
    SubSeq(GoodReply, 1, 2),
    <<48, 96>> }
\* a byte of line noise
Noise == {255}
\* a transport that can do all of it, and one that only answers or stays silent
AnyLine == [faults |-> Faults, replies |-> Replies, noise |-> Noise]
QuietLine == [faults |-> {}, replies |-> {<<>>, GoodReply}, noise |-> {}]

VARIABLES
  platform,     \* sys.platform
  ser_mapping,  \* TecanAPISerial.ser_mapping and TecanAPIMicro.ser_mapping
  serials,      \* every transport handle opened so far: port, open, closes, rx
  dev,          \* the device objects alive, by id_, each with its call frame
  next_id,      \* the id_ the next device object gets (ids are never reused)
  disc,         \* the frame of findSerialPumps
  last,         \* the constructor or finalizer that ran last, and what it raised
  line,         \* what the transport can do in this run: faults, replies, noise
  script        \* the frame of the script serial_test.py

vars == <<platform, ser_mapping, serials, dev, next_id, disc, last, line, script>>

(***************************************************************************)
(* serial_test.py: the script computes the checksum of its hard-coded      *)
(* command frame with _buildChecksum and writes the frame to uart0.  The   *)
(* frame is drawn from frames of the same shape (START, address, sequence  *)
(* byte, payload, END, last byte); the one of line 36 is OEMcommand.       *)
(***************************************************************************)
\* OEMcommand = b'\x02\x31\x31?76\x03c'
OEMcommand == <<START_BYTE, AddrBase, SeqByte>> \o CmdConfig \o <<END_BYTE, 99>>
\* the last bytes the script has carried: 'c' (line 36) and '<' (line 32)
LastBytes == {99, 60}
ScriptCommands ==
  { <<START_BYTE, AddrBase + a, SeqByte>> \o cmd \o <<END_BYTE, c>> :
      a \in 0..MaxAddr, cmd \in {CmdConfig, CmdFirmware}, c \in LastBytes }

NoScript == [pc |-> "off", OEMcommand |-> <<>>, i |-> 0, checksum |-> 0, written |-> 0]

\* OEMcommand[:-1]
PartialFrame(command) == SubSeq(command, 1, Len(command) - 1)

\* `for byte in partial_frame: checksum ^= byte`, one iteration
ChecksumStep ==
  /\ script.pc = "checksum"
  /\ script.i < Len(PartialFrame(script.OEMcommand))
  /\ script' = [script EXCEPT !.i = @ + 1,
         !.checksum = BitXor(@, PartialFrame(script.OEMcommand)[script.i + 1])]
  /\ UNCHANGED <<platform, ser_mapping, serials, dev, next_id, disc, last, line>>

\* `return checksum`, print, written = uart0.write(OEMcommand)
WriteCommand ==
  /\ script.pc = "checksum"
  /\ script.i = Len(PartialFrame(script.OEMcommand))
  /\ script' = [script EXCEPT !.pc = "written", !.written = Len(script.OEMcommand)]
  /\ UNCHANGED <<platform, ser_mapping, serials, dev, next_id, disc, last, line>>

(***************************************************************************)
(* Device objects.  A device is its attributes (id_, ser_port, ser_info,   *)
(* _ser) and the frame of its running sendRcv call.                        *)
(***************************************************************************)
NoRet == [type |-> "none", status_byte |-> 0, data |-> <<>>]

\* __init__ up to the call of _registerSer
NewDev(cls, id, addr, port, cfg) ==
  [ cls |-> cls, id_ |-> id, addr |-> addr, ser_port |-> port, ser_info |-> cfg,
    ser |-> 0, last_frame |-> <<>>,
    pc |-> "idle", cmd |-> <<>>, attempt_num |-> 0, frame_out |-> <<>>,
    raw_data |-> <<>>, raw_len |-> 0, ret |-> NoRet, exc |-> NoExc,
    nwrites |-> 0, heard |-> FALSE, faulted |-> FALSE, sleeps |-> <<>>,
    via |-> "none", seen |-> <<>>, wrote |-> <<>>, delays |-> <<>>,
    opened |-> 0, ind |-> 0 ]

\* serial.Serial(port=..., baudrate=..., timeout=...) / UART(...).init(...)
NewSerial(port) == [port |-> port, open |-> TRUE, closes |-> 0, rx |-> <<>>]

\* the conflict exception of each class
Conflict(cls) ==
  IF cls = "Serial" THEN Exc("SerialException", 0) ELSE Exc("Exception", 0)

\* registerSer gone wrong: a registration on a registered port opens the
\* transport again and keeps the new handle for itself
registerSerOpensAgain(mapping, sers, self, open) ==
  LET reg == mapping[self.cls]
      port == self.ser_port
      h == Len(sers) + 1
  IN  IF ~reg[port].present
      THEN IF open = NoExc
           THEN [ mapping |-> [mapping EXCEPT ![self.cls][port] =
                      [present |-> TRUE, keys |-> {"info", "_ser", "_devices"},
                       info |-> self.ser_info, ser |-> h,
                       devices |-> <<self.id_>>]],
                  serials |-> Append(sers, NewSerial(port)),
                  ser |-> h, exc |-> NoExc ]
           ELSE [ mapping |-> [mapping EXCEPT ![self.cls][port] =
                      [present |-> TRUE, keys |-> {"info"},
                       info |-> self.ser_info, ser |-> 0, devices |-> <<>>]],
                  serials |-> sers, ser |-> 0, exc |-> open ]
      ELSE IF ~ConfigMatches(self.ser_info, reg[port].info)
      THEN [ mapping |-> mapping, serials |-> sers, ser |-> 0,
             exc |-> Conflict(self.cls) ]
      ELSE IF "_devices" \notin reg[port].keys
      THEN [ mapping |-> mapping, serials |-> sers, ser |-> 0, exc |-> KeyError ]
      ELSE [ mapping |-> [mapping EXCEPT ![self.cls][port].devices =
                                               Append(@, self.id_)],
             serials |-> Append(sers, NewSerial(port)), ser |-> h, exc |-> NoExc ]

\* _registerSer.  open is what opening the transport raises (NoExc: it opens).
\* Returns the registry, the handles, self._ser and the exception raised.
registerSer(mapping, sers, self, open) ==
  LET reg == mapping[self.cls]
      port == self.ser_port
      h == Len(sers) + 1
  IN  IF ~reg[port].present
      THEN IF open = NoExc
           THEN [ mapping |-> [mapping EXCEPT ![self.cls][port] =
                      [present |-> TRUE, keys |-> {"info", "_ser", "_devices"},
                       info |-> self.ser_info, ser |-> h,
                       devices |-> <<self.id_>>]],
                  serials |-> Append(sers, NewSerial(port)),
                  ser |-> h, exc |-> NoExc ]
           \* reg[port] = {} and reg[port]['info'] are set before the open raises
           ELSE [ mapping |-> [mapping EXCEPT ![self.cls][port] =
                      [present |-> TRUE, keys |-> {"info"},
                       info |-> self.ser_info, ser |-> 0, devices |-> <<>>]],
                  serials |-> sers, ser |-> 0, exc |-> open ]
      ELSE IF ~ConfigMatches(self.ser_info, reg[port].info)
      THEN [ mapping |-> mapping, serials |-> sers, ser |-> 0,
             exc |-> Conflict(self.cls) ]
      ELSE IF "_devices" \notin reg[port].keys
      \* reg[port]['_devices'].append on an entry whose open had raised
      THEN [ mapping |-> mapping, serials |-> sers, ser |-> 0, exc |-> KeyError ]
      ELSE [ mapping |-> [mapping EXCEPT ![self.cls][port].devices =
                                               Append(@, self.id_)],
             serials |-> sers, ser |-> reg[port].ser, exc |-> NoExc ]

\* The body of __del__ against the registry of class regcls.
\* Returns the registry, the handles and the exception __del__ raises.
Deregister(mapping, sers, self, regcls) ==
  LET reg == mapping[regcls]
      port == self.ser_port
      port_reg == reg[port]
  IN  \* the lookup ser_mapping[self.ser_port] stands before the try
      IF ~port_reg.present
      THEN [ mapping |-> mapping, serials |-> sers, exc |-> KeyError ]
      \* port_reg['_devices'] raises KeyError inside the try: pass
      ELSE IF "_devices" \notin port_reg.keys
      THEN [ mapping |-> mapping, serials |-> sers, exc |-> NoExc ]
      \* dev_list.index raises ValueError, which except KeyError lets through
      ELSE IF ~Has(port_reg.devices, self.id_)
      THEN [ mapping |-> mapping, serials |-> sers, exc |-> ValueError ]
      ELSE LET dev_list == RemoveAt(port_reg.devices, Index(port_reg.devices, self.id_))
           IN  IF Len(dev_list) = 0
               THEN [ mapping |-> [mapping EXCEPT ![regcls][port] = Absent],
                      serials |-> [sers EXCEPT ![port_reg.ser] =
                                     [@ EXCEPT !.open = FALSE, !.closes = @ + 1]],
                      exc |-> NoExc ]
               ELSE [ mapping |-> [mapping EXCEPT ![regcls][port].devices = dev_list],
                      serials |-> sers, exc |-> NoExc ]

\* TecanAPISerial.__del__
delSerial(mapping, sers, self) == Deregister(mapping, sers, self, "Serial")
\* TecanAPIMicro.__del__: it names TecanAPISerial.ser_mapping
delMicro(mapping, sers, self) == Deregister(mapping, sers, self, "Serial")
\* __del__ of the class of self
del(mapping, sers, self) ==
  IF self.cls = "Serial" THEN delSerial(mapping, sers, self)
  ELSE delMicro(mapping, sers, self)

(***************************************************************************)
(* Registry operations as actions.  An object whose __init__ raised is     *)
(* unreachable: its __del__ runs and the object is gone.  A destroyed      *)
(* object is no longer part of the state; `last` keeps what the last       *)
(* constructor or finalizer did.                                           *)
(***************************************************************************)
NoDisc ==
  [ pc |-> "off", tecan_addrs |-> <<>>, cfg |-> NoInfo, i |-> 0, j |-> 0, p |-> 0,
    config |-> <<>>, found_devices |-> <<>>, exc |-> NoExc, probes |-> <<>> ]
NoLast == [op |-> "none", self |-> NewDev("Serial", 0, 0, "COM1", NoInfo),
           exc |-> NoExc, fin |-> NoExc]

Without(f, d) == [x \in (DOMAIN f) \ {d} |-> f[x]]
With(f, d, v) == [x \in (DOMAIN f) \cup {d} |-> IF x = d THEN v ELSE f[x]]

\* cls(addr, port, baud, timeout, max_attempts): __init__ and _registerSer
Construct(addr, port, cfg, open) ==
  /\ disc.pc = "off"
  /\ next_id <= MaxDevices
  /\ LET self == NewDev(ClsOf(platform), next_id, addr, port, cfg)
         r == registerSer(ser_mapping, serials, self, open)
         \* __init__ raised: the object is finalized
         f == del(r.mapping, r.serials, self)
     IN  IF r.exc = NoExc
         THEN /\ ser_mapping' = r.mapping
              /\ serials' = r.serials
              /\ dev' = With(dev, next_id, [self EXCEPT !.ser = r.ser])
              /\ last' = [op |-> "init", self |-> self, exc |-> NoExc, fin |-> NoExc]
         ELSE /\ ser_mapping' = f.mapping
              /\ serials' = f.serials
              /\ dev' = dev
              /\ last' = [op |-> "init", self |-> self, exc |-> r.exc, fin |-> f.exc]
  /\ next_id' = next_id + 1
  /\ UNCHANGED <<platform, disc, line, script>>

\* the last reference to device d is dropped: __del__ runs, the object is gone
Destroy(d) ==
  /\ disc.pc = "off"
  /\ dev[d].pc \in {"idle", "done"}
  /\ LET r == del(ser_mapping, serials, dev[d])
     IN  /\ ser_mapping' = r.mapping
         /\ serials' = r.serials
         /\ dev' = Without(dev, d)
         /\ last' = [op |-> "del", self |-> dev[d], exc |-> NoExc, fin |-> r.exc]
  /\ UNCHANGED <<platform, next_id, disc, line, script>>

InitReg ==
  /\ platform \in Platforms
  /\ ser_mapping = EmptyMapping
  /\ serials = <<>>
  /\ dev = <<>>
  /\ next_id = 1
  /\ disc = NoDisc
  /\ last = NoLast
  /\ line = AnyLine
  /\ script = NoScript

NextReg ==
  \/ \E port \in PortsOf(platform), cfg \in RegCfgs, open \in line.faults \cup {NoExc} :
       Construct(0, port, cfg, open)
  \/ \E d \in DOMAIN dev : Destroy(d)

SpecReg == InitReg /\ [][NextReg]_vars

\* serial_test.py is run on the microcontroller
InitScript ==
  /\ platform = "rp2"
  /\ ser_mapping = EmptyMapping
  /\ serials = <<>>
  /\ dev = <<>>
  /\ next_id = 1
  /\ disc = NoDisc
  /\ last = NoLast
  /\ line = QuietLine
  /\ \E command \in ScriptCommands :
       script = [NoScript EXCEPT !.pc = "checksum", !.OEMcommand = command]

NextScript ==
  \/ ChecksumStep
  \/ WriteCommand

SpecScript == InitScript /\ [][NextScript]_vars

(***************************************************************************)
(* sendRcv.  One action per transport call; the code between two transport *)
(* calls runs with the call before it.                                     *)
(***************************************************************************)
\* sleep(ms / 1000): the delays of the running call, in order.  seen logs how
\* each attempt of the call ended (the type parseFrame gave, or the call that
\* raised); via
\* is the codec operation that gave frame_out, wrote the frame last written.
Sleep(self, ms) == [self EXCEPT !.sleeps = Append(@, ms)]
\* the sleep that follows a failed attempt; delays keeps these, one per
\* failed attempt
Backoff(self, ms) == [Sleep(self, ms) EXCEPT !.delays = Append(@, ms)]

\* BackoffDelay gone wrong: the delay is not scaled by the attempt number
BackoffDelayFlat(attempt_num) == BackoffUnit

\* sleep(0.05 * attempt_num), in ms
BackoffDelay(attempt_num) == BackoffUnit * attempt_num

\* Loop gone wrong: every attempt encodes the command afresh
LoopAlwaysFresh(self) ==
  IF self.attempt_num < self.ser_info.max_attempts
  THEN LET n == self.attempt_num + 1
           f == emitFrame(self.addr, self.cmd)
       IN  [self EXCEPT !.attempt_num = n, !.frame_out = f, !.last_frame = f,
                        !.via = "emitFrame", !.pc = "send"]
  ELSE [self EXCEPT !.pc = "done", !.exc = TecanAPITimeout]

\* Loop gone wrong: the loop test is attempt_num <= max_attempts
LoopOffByOne(self) ==
  IF self.attempt_num <= self.ser_info.max_attempts
  THEN LET n == self.attempt_num + 1
           f == IF n = 1 THEN emitFrame(self.addr, self.cmd)
                ELSE emitRepeat(self.last_frame)
       IN  [self EXCEPT !.attempt_num = n, !.frame_out = f, !.last_frame = f,
                        !.via = IF n = 1 THEN "emitFrame" ELSE "emitRepeat",
                        !.pc = "send"]
  ELSE [self EXCEPT !.pc = "done", !.exc = TecanAPITimeout]

\* `while attempt_num < max_attempts:` and the body up to the frame to send,
\* or the raise of TecanAPITimeout after the loop
Loop(self) ==
  IF self.attempt_num < self.ser_info.max_attempts
  THEN LET n == self.attempt_num + 1
           f == IF n = 1 THEN emitFrame(self.addr, self.cmd)
                ELSE emitRepeat(self.last_frame)
       IN  [self EXCEPT !.attempt_num = n, !.frame_out = f, !.last_frame = f,
                        !.via = IF n = 1 THEN "emitFrame" ELSE "emitRepeat",
                        !.pc = "send"]
  ELSE [self EXCEPT !.pc = "done", !.exc = TecanAPITimeout]

\* TecanAPISerial.sendRcv: `except serial.SerialException:`
CatchesSerial(e) == e.kind = "SerialException"
\* TecanAPIMicro.sendRcv: `except:`
CatchesMicro(e) == TRUE
Catches(cls, e) == IF cls = "Serial" THEN CatchesSerial(e) ELSE CatchesMicro(e)

\* the transport raised e inside the try
Except(self, e) ==
  LET s == [self EXCEPT !.raw_data = <<>>, !.raw_len = 0, !.faulted = TRUE,
                        !.seen = Append(@, IF self.pc = "send" THEN "write fault"
                                           ELSE "read fault")]
  IN  IF Catches(self.cls, e) THEN Loop(Backoff(s, FaultSleep))
      ELSE [s EXCEPT !.pc = "done", !.exc = e]

\* Received gone wrong: an attempt that read nothing goes on without the sleep
ReceivedNoDataNoSleep(self, raw) ==
  LET frame_in == parseFrame(raw)
      s == [self EXCEPT !.raw_data = <<>>, !.raw_len = 0,
                        !.seen = Append(@, frame_in.type)]
  IN  IF Truthy(frame_in) THEN [s EXCEPT !.pc = "done", !.ret = frame_in]
      ELSE IF raw = <<>> THEN Loop(s)
      ELSE Loop(Backoff(s, BackoffDelay(self.attempt_num)))

\* _receiveFrame returned: parseFrame(raw), `if frame_in: return frame_in`,
\* else sleep(0.05 * attempt_num)
Received(self, raw) ==
  LET frame_in == parseFrame(raw)
      s == [self EXCEPT !.raw_data = <<>>, !.raw_len = 0,
                        !.seen = Append(@, frame_in.type)]
  IN  IF Truthy(frame_in) THEN [s EXCEPT !.pc = "done", !.ret = frame_in]
      ELSE Loop(Backoff(s, BackoffDelay(self.attempt_num)))

\* the receive buffer after the pump answered r; bytes that do not fit are lost
Put(rx, r) == SubSeq(rx \o r, 1, IF Len(rx) + Len(r) < MaxRaw THEN Len(rx) + Len(r) ELSE MaxRaw)
\* raw_data += raw_byte
Stored(raw, b) == IF Len(raw) < MaxRaw THEN Append(raw, b) ELSE raw
\* len(raw_data) after one more byte: exact up to MaxRaw, beyond it only its
\* parity is kept
Longer(n) == IF n < MaxRaw THEN n + 1 ELSE IF n = MaxRaw THEN MaxRaw + 1 ELSE MaxRaw

\* sendRcv(cmd) is entered: attempt_num = 0, then the loop
StartCall(self, cmd) ==
  Loop([self EXCEPT !.cmd = cmd, !.attempt_num = 0, !.raw_data = <<>>,
                    !.raw_len = 0, !.ret = NoRet, !.exc = NoExc, !.nwrites = 0,
                    !.heard = FALSE, !.faulted = FALSE, !.sleeps = <<>>,
                    !.via = "none", !.seen = <<>>, !.wrote = <<>>,
                    !.delays = <<>>])

\* the thread that owns device d calls p.sendRcv(cmd)
Call(d, cmd) ==
  /\ dev[d].pc = "idle"
  /\ dev' = [dev EXCEPT ![d] = StartCall(@, cmd)]
  /\ UNCHANGED <<platform, ser_mapping, serials, next_id, disc, last, line, script>>

\* _sendFrame: self._ser.write(frame); TecanAPIMicro then sleeps 0.1 s
SendFrame(d) ==
  /\ dev[d].pc = "send"
  /\ \/ \E e \in line.faults :
          /\ dev' = [dev EXCEPT ![d] = Except(@, e)]
          /\ UNCHANGED serials
     \/ \E r \in line.replies :
          /\ serials' = [serials EXCEPT ![dev[d].ser].rx = Put(@, r)]
          /\ dev' = [dev EXCEPT ![d] =
               LET s == [@ EXCEPT !.nwrites = @ + 1, !.wrote = dev[d].frame_out,
                                  !.pc = "recv"]
               IN  IF s.cls = "Micro" THEN Sleep(s, SettleSleep) ELSE s]
  /\ UNCHANGED <<platform, ser_mapping, next_id, disc, last, line, script>>

\* TecanAPISerial._receiveFrame: one self._ser.read() of the loop
ReceiveByte(d) ==
  /\ dev[d].pc = "recv"
  /\ dev[d].cls = "Serial"
  /\ LET rx == serials[dev[d].ser].rx
     IN  \/ \E e \in line.faults :
              /\ dev' = [dev EXCEPT ![d] = Except(@, e)]
              /\ UNCHANGED serials
         \/ /\ rx # <<>>
            /\ serials' = [serials EXCEPT ![dev[d].ser].rx = Tail(@)]
            /\ dev' = [dev EXCEPT ![d].raw_data = Stored(@, Head(rx)),
                                  ![d].raw_len = Longer(@), ![d].heard = TRUE]
         \/ /\ rx = <<>>
            /\ \E b \in line.noise :
                 dev' = [dev EXCEPT ![d].raw_data = Stored(@, b),
                                    ![d].raw_len = Longer(@), ![d].heard = TRUE]
            /\ UNCHANGED serials
         \/ /\ rx = <<>>
            /\ dev' = [dev EXCEPT ![d] = Received(@, @.raw_data)]
            /\ UNCHANGED serials
  /\ UNCHANGED <<platform, ser_mapping, next_id, disc, last, line, script>>

\* TecanAPIMicro._receiveFrame: self._ser.read(50)
ReceiveFrame(d) ==
  /\ dev[d].pc = "recv"
  /\ dev[d].cls = "Micro"
  /\ LET rx == serials[dev[d].ser].rx
         n == IF Len(rx) < ReadMax THEN Len(rx) ELSE ReadMax
     IN  \/ \E e \in line.faults :
              /\ dev' = [dev EXCEPT ![d] = Except(@, e)]
              /\ UNCHANGED serials
         \/ /\ rx # <<>>
            /\ serials' = [serials EXCEPT ![dev[d].ser].rx = SubSeq(@, n + 1, Len(@))]
            /\ dev' = [dev EXCEPT ![d] = Received([@ EXCEPT !.heard = TRUE],
                                                  SubSeq(rx, 1, n))]
         \/ /\ rx = <<>>
            /\ \E b \in line.noise :
                 dev' = [dev EXCEPT ![d] = Received([@ EXCEPT !.heard = TRUE], <<b>>)]
            /\ UNCHANGED serials
         \/ /\ rx = <<>>
            /\ dev' = [dev EXCEPT ![d] = Received(@, <<>>)]
            /\ UNCHANGED serials
  /\ UNCHANGED <<platform, ser_mapping, next_id, disc, last, line, script>>

\* a step of the running sendRcv call of device d
Step(d) == SendFrame(d) \/ ReceiveByte(d) \/ ReceiveFrame(d)

(***************************************************************************)
(* One device, registered, whose caller sends commands: the state after    *)
(* cls(0, port, 9600, 200, m) on an empty registry.                        *)
(***************************************************************************)
Registered(pf, n, cfg) ==
  LET port == listSerialPorts(pf)[1]
      first == NewDev(ClsOf(pf), 1, 0, port, cfg)
      r1 == registerSer(EmptyMapping, <<>>, first, NoExc)
      second == NewDev(ClsOf(pf), 2, 1, port, cfg)
      r2 == registerSer(r1.mapping, r1.serials, second, NoExc)
  IN  IF n = 1
      THEN [mapping |-> r1.mapping, serials |-> r1.serials,
            dev |-> With(<<>>, 1, [first EXCEPT !.ser = r1.ser])]
      ELSE [mapping |-> r2.mapping, serials |-> r2.serials,
            dev |-> With(With(<<>>, 1, [first EXCEPT !.ser = r1.ser]),
                         2, [second EXCEPT !.ser = r2.ser])]

InitSend ==
  /\ platform \in Platforms
  /\ \E m \in 1..MaxAttempts :
       LET r == Registered(platform, 1, Cfg(9600, 200, m))
       IN  ser_mapping = r.mapping /\ serials = r.serials /\ dev = r.dev
  /\ next_id = 2
  /\ disc = NoDisc
  /\ last = NoLast
  /\ line = AnyLine
  /\ script = NoScript

NextSend ==
  \/ \E d \in DOMAIN dev, cmd \in {CmdConfig, CmdFirmware} : Call(d, cmd)
  \/ \E d \in DOMAIN dev : Step(d)

SpecSend == InitSend /\ [][NextSend]_vars

\* a thread that is inside sendRcv keeps running
SpecSendFair == SpecSend /\ \A d \in {1} : WF_vars(Step(d))

(***************************************************************************)
(* Two devices registered on the same port, each with its own thread       *)
(* calling sendRcv.                                                        *)
(***************************************************************************)
InitConc ==
  /\ platform \in Platforms
  /\ \E m \in 1..MaxAttempts :
       LET r == Registered(platform, 2, Cfg(9600, 200, m))
       IN  ser_mapping = r.mapping /\ serials = r.serials /\ dev = r.dev
  /\ next_id = 3
  /\ disc = NoDisc
  /\ last = NoLast
  /\ line = QuietLine
  /\ script = NoScript

SpecConc == InitConc /\ [][NextSend]_vars

(***************************************************************************)
(* _registerSer and __del__ run by two threads, one statement per step.    *)
(* pc of a device is the statement its thread runs next; opened is the     *)
(* transport object its open returned and has not stored yet, ind the      *)
(* local ind of __del__.  Two runs: two constructors on a port that has no *)
(* entry, and a constructor while the only member of the port is           *)
(* finalized.  In both, an entry is replaced or deleted only when no       *)
(* running __del__ of a member refers to it, so port_reg and dev_list of   *)
(* __del__ are the dict the registry holds; an object whose __init__       *)
(* raised is in no member list the registry holds, so its __del__ is one   *)
(* step.                                                                   *)
(***************************************************************************)
\* reg[port] of the thread of device d in _registerSer
Reg(d) == ser_mapping[dev[d].cls][dev[d].ser_port]
\* port_reg of __del__: both classes name TecanAPISerial.ser_mapping
PortReg(d) == ser_mapping["Serial"][dev[d].ser_port]

\* something refers to transport object h: an entry, a device, a local
Referenced(h, mapping, devs) ==
  \/ \E c \in Classes, p \in AllPorts :
       mapping[c][p].present /\ "_ser" \in mapping[c][p].keys /\ mapping[c][p].ser = h
  \/ \E d \in DOMAIN devs : devs[d].ser = h \/ devs[d].opened = h

\* a serial.Serial object that nothing refers to is finalized, which closes
\* it (io.IOBase.__del__); a UART object stays initialised
Collect(sers, mapping, devs) ==
  [h \in 1..Len(sers) |->
     IF platform = "win" /\ sers[h].open /\ ~Referenced(h, mapping, devs)
     THEN [sers[h] EXCEPT !.open = FALSE, !.closes = @ + 1]
     ELSE sers[h]]

\* a statement of the thread of d ran: the registry and d afterwards
Ran(d, mapping, sers, self) ==
  /\ ser_mapping' = mapping
  /\ dev' = [dev EXCEPT ![d] = self]
  /\ serials' = Collect(sers, mapping, [dev EXCEPT ![d] = self])
  /\ UNCHANGED <<platform, next_id, disc, last, line, script>>

\* a statement of __init__ of d raised e: the object is finalized
Raise(d, e) ==
  LET f == del(ser_mapping, serials, dev[d])
  IN  /\ ser_mapping' = f.mapping
      /\ dev' = Without(dev, d)
      /\ serials' = Collect(f.serials, f.mapping, Without(dev, d))
      /\ last' = [op |-> "init", self |-> dev[d], exc |-> e, fin |-> f.exc]
      /\ UNCHANGED <<platform, next_id, disc, line, script>>

\* __del__ of d ended, raising e or nothing: the object is gone
Gone(d, mapping, sers, e) ==
  /\ ser_mapping' = mapping
  /\ dev' = Without(dev, d)
  /\ serials' = Collect(sers, mapping, Without(dev, d))
  /\ last' = [op |-> "del", self |-> dev[d], exc |-> NoExc, fin |-> e]
  /\ UNCHANGED <<platform, next_id, disc, line, script>>

\* reg[port][key] = value
SetItem(d, key, entry) ==
  [ser_mapping EXCEPT ![dev[d].cls][dev[d].ser_port] =
     [entry EXCEPT !.keys = @ \cup {key}]]

\* `if self.ser_port not in reg:`
RegTest(d) ==
  /\ dev[d].pc = "r_test"
  /\ Ran(d, ser_mapping, serials,
         [dev[d] EXCEPT !.pc = IF ~Reg(d).present THEN "r_new" ELSE "r_cmp"])

\* reg[port] = {}
RegCreate(d) ==
  /\ dev[d].pc = "r_new"
  /\ Ran(d, [ser_mapping EXCEPT ![dev[d].cls][dev[d].ser_port] =
                [Absent EXCEPT !.present = TRUE]],
         serials, [dev[d] EXCEPT !.pc = "r_info"])

\* reg[port]['info'] = {k: v for k, v in self.ser_info.items()}
RegInfo(d) ==
  /\ dev[d].pc = "r_info"
  /\ IF ~Reg(d).present THEN Raise(d, KeyError)
     ELSE Ran(d, SetItem(d, "info", [Reg(d) EXCEPT !.info = dev[d].ser_info]),
              serials, [dev[d] EXCEPT !.pc = "r_open"])

\* serial.Serial(port=port, baudrate=reg[port]['info']['baud'], ...)
RegOpen(d) ==
  /\ dev[d].pc = "r_open"
  /\ IF ~Reg(d).present \/ "info" \notin Reg(d).keys THEN Raise(d, KeyError)
     ELSE \E open \in line.faults \cup {NoExc} :
            IF open # NoExc THEN Raise(d, open)
            ELSE Ran(d, ser_mapping, Append(serials, NewSerial(dev[d].ser_port)),
                     [dev[d] EXCEPT !.opened = Len(serials) + 1, !.pc = "r_store"])

\* reg[port]['_ser'] = <the transport object>
RegStore(d) ==
  /\ dev[d].pc = "r_store"
  /\ IF ~Reg(d).present THEN Raise(d, KeyError)
     ELSE Ran(d, SetItem(d, "_ser", [Reg(d) EXCEPT !.ser = dev[d].opened]),
              serials, [dev[d] EXCEPT !.opened = 0, !.pc = "r_devs"])

\* reg[port]['_devices'] = [self.id_]
RegDevices(d) ==
  /\ dev[d].pc = "r_devs"
  /\ IF ~Reg(d).present THEN Raise(d, KeyError)
     ELSE Ran(d, SetItem(d, "_devices", [Reg(d) EXCEPT !.devices = <<d>>]),
              serials, [dev[d] EXCEPT !.pc = "r_ser"])

\* `if len(set(self.ser_info.items()) & set(reg[port]['info'].items())) != 3:`
RegCompare(d) ==
  /\ dev[d].pc = "r_cmp"
  /\ IF ~Reg(d).present \/ "info" \notin Reg(d).keys THEN Raise(d, KeyError)
     ELSE IF ~ConfigMatches(dev[d].ser_info, Reg(d).info)
     THEN Raise(d, Conflict(dev[d].cls))
     ELSE Ran(d, ser_mapping, serials, [dev[d] EXCEPT !.pc = "r_append"])

\* reg[port]['_devices'].append(self.id_)
RegAppend(d) ==
  /\ dev[d].pc = "r_append"
  /\ IF ~Reg(d).present \/ "_devices" \notin Reg(d).keys THEN Raise(d, KeyError)
     ELSE Ran(d, [ser_mapping EXCEPT ![dev[d].cls][dev[d].ser_port].devices =
                    Append(@, d)],
              serials, [dev[d] EXCEPT !.pc = "r_ser"])

\* self._ser = reg[port]['_ser']: __init__ returns
RegSer(d) ==
  /\ dev[d].pc = "r_ser"
  /\ IF ~Reg(d).present \/ "_ser" \notin Reg(d).keys THEN Raise(d, KeyError)
     ELSE /\ ser_mapping' = ser_mapping
          /\ dev' = [dev EXCEPT ![d].ser = Reg(d).ser, ![d].pc = "idle"]
          /\ serials' = serials
          /\ last' = [op |-> "init", self |-> dev[d], exc |-> NoExc, fin |-> NoExc]
          /\ UNCHANGED <<platform, next_id, disc, line, script>>

\* a statement of _registerSer
RegStep(d) ==
  \/ RegTest(d) \/ RegCreate(d) \/ RegInfo(d) \/ RegOpen(d) \/ RegStore(d)
  \/ RegDevices(d) \/ RegCompare(d) \/ RegAppend(d) \/ RegSer(d)

\* port_reg = TecanAPISerial.ser_mapping[self.ser_port]
DelLookup(d) ==
  /\ dev[d].pc = "d_reg"
  /\ IF ~PortReg(d).present THEN Gone(d, ser_mapping, serials, KeyError)
     ELSE Ran(d, ser_mapping, serials, [dev[d] EXCEPT !.pc = "d_list"])

\* dev_list = port_reg['_devices']; ind = dev_list.index(self.id_)
DelIndex(d) ==
  /\ dev[d].pc = "d_list"
  /\ IF "_devices" \notin PortReg(d).keys THEN Gone(d, ser_mapping, serials, NoExc)
     ELSE IF ~Has(PortReg(d).devices, d) THEN Gone(d, ser_mapping, serials, ValueError)
     ELSE Ran(d, ser_mapping, serials,
              [dev[d] EXCEPT !.ind = Index(PortReg(d).devices, d), !.pc = "d_del"])

\* del dev_list[ind]
DelItem(d) ==
  /\ dev[d].pc = "d_del"
  /\ Ran(d, [ser_mapping EXCEPT !["Serial"][dev[d].ser_port].devices =
                RemoveAt(@, dev[d].ind)],
         serials, [dev[d] EXCEPT !.pc = "d_len"])

\* `if len(dev_list) == 0:`
DelLen(d) ==
  /\ dev[d].pc = "d_len"
  /\ IF Len(PortReg(d).devices) = 0
     THEN Ran(d, ser_mapping, serials, [dev[d] EXCEPT !.pc = "d_close"])
     ELSE Gone(d, ser_mapping, serials, NoExc)

\* port_reg['_ser'].close()
DelClose(d) ==
  /\ dev[d].pc = "d_close"
  /\ IF "_ser" \notin PortReg(d).keys THEN Gone(d, ser_mapping, serials, NoExc)
     ELSE Ran(d, ser_mapping,
              [serials EXCEPT ![PortReg(d).ser] =
                 IF @.open THEN [@ EXCEPT !.open = FALSE, !.closes = @ + 1] ELSE @],
              [dev[d] EXCEPT !.pc = "d_unmap"])

\* del port_reg, TecanAPISerial.ser_mapping[self.ser_port]
DelUnmap(d) ==
  /\ dev[d].pc = "d_unmap"
  /\ Gone(d, [ser_mapping EXCEPT !["Serial"][dev[d].ser_port] = Absent],
          serials, NoExc)

\* a statement of __del__
DelStep(d) ==
  \/ DelLookup(d) \/ DelIndex(d) \/ DelItem(d) \/ DelLen(d) \/ DelClose(d)
  \/ DelUnmap(d)

\* two threads construct a device each, same port and config, on an empty
\* registry; or one constructs a device while the only member is finalized
InitRace ==
  /\ platform \in Platforms
  /\ line \in {QuietLine, AnyLine}
  /\ LET port == listSerialPorts(platform)[1]
         first == NewDev(ClsOf(platform), 1, 0, port, BaseCfg)
         second == NewDev(ClsOf(platform), 2, 1, port, BaseCfg)
         r == Registered(platform, 1, BaseCfg)
     IN  \/ /\ ser_mapping = EmptyMapping
            /\ serials = <<>>
            /\ dev = With(With(<<>>, 1, [first EXCEPT !.pc = "r_test"]),
                          2, [second EXCEPT !.pc = "r_test"])
         \/ /\ ser_mapping = r.mapping
            /\ serials = r.serials
            /\ dev = With([r.dev EXCEPT ![1].pc = "d_reg"],
                          2, [second EXCEPT !.pc = "r_test"])
  /\ next_id = 3
  /\ disc = NoDisc
  /\ last = NoLast
  /\ script = NoScript

NextRace ==
  \/ \E d \in DOMAIN dev : RegStep(d)
  \/ \E d \in DOMAIN dev : DelStep(d)

SpecRace == InitRace /\ [][NextRace]_vars

(***************************************************************************)
(* Claims about sendRcv.                                                   *)
(***************************************************************************)
\* the sendRcv call of device d has ended (returned or raised)
Ended(d) == dev[d].pc = "done"
\* the transport was silent during the call of d: every write went out, every
\* read timed out with no byte
Silent(d) == ~dev[d].heard /\ ~dev[d].faulted

\* C2: when the transport never returns data, sendRcv writes a frame exactly
\* max_attempts times (never more while it runs) and then raises TecanAPITimeout.
C2_RetryBound ==
  \A d \in DOMAIN dev :
    /\ Silent(d) => dev[d].nwrites <= dev[d].ser_info.max_attempts
    /\ (Ended(d) /\ Silent(d)) =>
         /\ dev[d].nwrites = dev[d].ser_info.max_attempts
         /\ dev[d].exc = TecanAPITimeout
         /\ dev[d].ret = NoRet

\* a call on a silent transport with max_attempts = MaxAttempts has ended
C2_Witness ==
  \E d \in DOMAIN dev :
    /\ Ended(d) /\ Silent(d)
    /\ dev[d].ser_info.max_attempts = MaxAttempts
    /\ dev[d].nwrites = MaxAttempts
    /\ dev[d].exc = TecanAPITimeout

\* C5: sendRcv ends in one of two ways, a decoded Response or TecanAPITimeout;
\* no fault of a single attempt reaches the caller.
C5_TwoOutcomes ==
  \A d \in DOMAIN dev :
    Ended(d) =>
      \/ dev[d].exc = NoExc /\ dev[d].ret.type = "Response"
      \/ dev[d].exc = TecanAPITimeout /\ dev[d].ret = NoRet

\* C10: every sendRcv call that has started ends.
C10_Terminates ==
  \A d \in {1} : (dev[d].pc \in {"send", "recv"}) ~> Ended(d)

\* the attempts of the call of d that ended the way `how` says
Attempts(d, how) == {k \in 1..Len(dev[d].seen) : dev[d].seen[k] \in how}

\* C13: a sendRcv call that returns, returns the Response decoded from the
\* bytes of the attempt it ended in, and no earlier attempt of the call read a
\* valid frame; while the call runs no attempt has read one (a valid reply
\* ends the call: no write, read or backoff follows it).  Every attempt up to
\* that one issued one write and none followed, so the frames that went out
\* are the attempts less those whose write raised.
C13_FirstValid ==
  \A d \in DOMAIN dev :
    /\ dev[d].pc \in {"send", "recv"} => Attempts(d, {"Response"}) = {}
    /\ Attempts(d, {"Response"}) # {} =>
         /\ Ended(d)
         /\ dev[d].exc = NoExc
         /\ Attempts(d, {"Response"}) = {dev[d].attempt_num}
    /\ (Ended(d) /\ dev[d].exc = NoExc) =>
         /\ dev[d].ret = parseFrame(GoodReply)
         /\ Len(dev[d].seen) = dev[d].attempt_num
         /\ dev[d].seen[dev[d].attempt_num] = "Response"
         /\ dev[d].nwrites + Cardinality(Attempts(d, {"write fault"})) =
              dev[d].attempt_num
         /\ Len(dev[d].sleeps) = (dev[d].attempt_num - 1) +
              (IF dev[d].cls = "Micro" THEN dev[d].nwrites ELSE 0)

\* a call returned in its second attempt, after a first one that read bytes
\* which did not decode
C13_Witness ==
  \E d \in DOMAIN dev :
    /\ Ended(d)
    /\ dev[d].exc = NoExc
    /\ dev[d].attempt_num = 2
    /\ dev[d].nwrites = 2
    /\ dev[d].seen[1] \in {"BadChecksum", "MissingMarkers", "Truncated"}

\* C14: in a sendRcv call, attempt 1 writes the frame emitFrame encodes for
\* the command; every later attempt writes what emitRepeat gives, the frame
\* sent before, and never encodes afresh, whatever ended the attempt before
\* it (silence, bytes that do not decode, a transport fault).
C14_RepeatFrame ==
  \A d \in DOMAIN dev :
    /\ dev[d].pc \in {"send", "recv"} =>
         /\ dev[d].via = (IF dev[d].attempt_num = 1 THEN "emitFrame" ELSE "emitRepeat")
         /\ dev[d].frame_out = emitFrame(dev[d].addr, dev[d].cmd)
         /\ Len(dev[d].seen) = dev[d].attempt_num - 1
    /\ dev[d].pc = "recv" => dev[d].wrote = dev[d].frame_out
    /\ dev[d].nwrites > 0 => dev[d].wrote = emitFrame(dev[d].addr, dev[d].cmd)

\* TecanAPISerial wrote the repeat frame in attempt 2 after a read that raised
C14_Witness ==
  \E d \in DOMAIN dev :
    /\ dev[d].cls = "Serial"
    /\ dev[d].pc = "recv"
    /\ dev[d].attempt_num = 2
    /\ dev[d].seen = <<"read fault">>
    /\ dev[d].via = "emitRepeat"
    /\ dev[d].wrote = emitFrame(0, dev[d].cmd)

\* how an attempt ends that read nothing, or bytes that do not decode
NoData == {"NoData"}
DecodeError == {"MissingMarkers", "BadChecksum", "Truncated"}
TransportFault == {"write fault", "read fault"}

\* C15 as stated: the delay after failed attempt n is 50 ms x n, strictly
\* larger than the delay after the failed attempt before it, whatever made the
\* attempts fail (no data, a decode error, a transport fault).
C15_BackoffGrows ==
  \A d \in DOMAIN dev :
    \A n \in 1..Len(dev[d].delays) :
      /\ dev[d].delays[n] = BackoffUnit * n
      /\ n > 1 => dev[d].delays[n] > dev[d].delays[n - 1]

\* C15 amended: the delay after attempt n is 50 ms x n when the attempt read
\* no data or bytes that do not decode, so among these attempts it grows
\* strictly with n; after an attempt that a caught transport fault ended it is
\* 200 ms, whatever n.
C15_BackoffByCause ==
  \A d \in DOMAIN dev :
    /\ Len(dev[d].delays) = Cardinality(Attempts(d, NoData \cup DecodeError \cup TransportFault))
         - (IF Ended(d) /\ dev[d].exc \in Faults THEN 1 ELSE 0)
    /\ \A n \in 1..Len(dev[d].delays) :
         /\ dev[d].seen[n] \in NoData \cup DecodeError =>
              /\ dev[d].delays[n] = BackoffUnit * n
              /\ \A k \in 1..(n - 1) :
                   dev[d].seen[k] \in NoData \cup DecodeError =>
                     dev[d].delays[k] < dev[d].delays[n]
         /\ dev[d].seen[n] \in TransportFault => dev[d].delays[n] = FaultSleep

\* a silent attempt 1 and an attempt 2 whose bytes did not decode: 50 ms, 100 ms
C15_Witness ==
  \E d \in DOMAIN dev :
    /\ Len(dev[d].delays) = 2
    /\ dev[d].seen[1] \in NoData
    /\ dev[d].seen[2] \in DecodeError
    /\ dev[d].delays[1] < dev[d].delays[2]

\* C16: an attempt that read no bytes and an attempt that read bytes which do
\* not decode are treated alike: each consumes one attempt, is followed by the
\* backoff of its attempt number, and then by the next attempt with the repeat
\* frame, or by TecanAPITimeout if it was the last attempt.
C16_SameRetry ==
  \A d \in DOMAIN dev :
    \A n \in Attempts(d, NoData \cup DecodeError) :
      /\ n <= dev[d].attempt_num
      /\ n <= Len(dev[d].delays)
      /\ dev[d].delays[n] = BackoffUnit * n
      /\ IF n < dev[d].ser_info.max_attempts
         THEN /\ dev[d].attempt_num >= n + 1
              /\ (dev[d].attempt_num = n + 1 /\ dev[d].pc \in {"send", "recv"}) =>
                   /\ dev[d].via = "emitRepeat"
                   /\ dev[d].frame_out = dev[d].last_frame
         ELSE /\ Ended(d)
              /\ dev[d].exc = TecanAPITimeout
              /\ dev[d].attempt_num = n

\* a call with one silent attempt and one whose bytes did not decode ended in
\* TecanAPITimeout
C16_Witness ==
  \E d \in DOMAIN dev :
    /\ Ended(d)
    /\ dev[d].exc = TecanAPITimeout
    /\ Attempts(d, NoData) # {}
    /\ Attempts(d, DecodeError) # {}
    /\ dev[d].nwrites = 2

(***************************************************************************)
(* Claims about the registry.                                              *)
(***************************************************************************)
\* the entry of the registry of self's own class for self's port
EntryOf(mapping, self) == mapping[self.cls][self.ser_port]
\* this step ran a constructor (each one takes a fresh id_)
Constructed == next_id' = next_id + 1
\* this step ran a finalizer: of a destroyed device, or of an object whose
\* __init__ raised
Finalized == last'.op = "del" \/ (Constructed /\ last'.exc # NoExc)

\* C3: on a port that has an entry, a registration whose config differs in
\* baud, timeout or max_attempts raises the conflict error and leaves registry,
\* handles and devices as they were; on a port devices are registered to, one
\* whose config is equal in all three succeeds, appends the id to the member
\* list and changes nothing else.
C3_Register ==
  [][ Constructed =>
        LET self == last'.self
            e == EntryOf(ser_mapping, self)
        IN  /\ (e.present /\ self.ser_info # e.info) =>
                 /\ last'.exc = Conflict(self.cls)
                 /\ ser_mapping' = ser_mapping
                 /\ serials' = serials
                 /\ dev' = dev
            /\ (e.present /\ "_devices" \in e.keys /\ self.ser_info = e.info) =>
                 /\ last'.exc = NoExc
                 /\ ser_mapping' = [ser_mapping EXCEPT
                        ![self.cls][self.ser_port].devices = Append(@, self.id_)]
                 /\ serials' = serials
                 /\ self.id_ \in DOMAIN dev'
                 /\ dev'[self.id_].ser = e.ser ]_vars

\* a third registration met two members on its port and raised the conflict
C3_Witness ==
  /\ last.op = "init"
  /\ last.exc = Conflict(last.self.cls)
  /\ Len(EntryOf(ser_mapping, last.self).devices) = 2
  /\ last.self.ser_info.baud = EntryOf(ser_mapping, last.self).info.baud
  /\ last.self.ser_info.timeout = EntryOf(ser_mapping, last.self).info.timeout

\* the devices alive that hold handle h
Holders(h) == {d \in DOMAIN dev : dev[d].ser = h}

\* C4: a transport handle is open, and never yet closed, while a device that
\* registered on it is alive; once the last one is destroyed the handle has
\* been closed exactly once and no registry entry refers to it.
C4_Teardown ==
  \A h \in 1..Len(serials) :
    /\ Holders(h) # {} => serials[h].open /\ serials[h].closes = 0
    /\ Holders(h) = {} =>
         /\ ~serials[h].open
         /\ serials[h].closes = 1
         /\ \A c \in Classes, p \in AllPorts :
              ser_mapping[c][p].present => ser_mapping[c][p].ser # h

\* C6: a finalizer that runs for an id_ that is not in the member list of its
\* port raises nothing and leaves registry and handles unchanged.
C6_DeregisterUnknown ==
  [][ (Finalized /\ last'.exc \notin Faults
         /\ ~Has(EntryOf(ser_mapping, last'.self).devices, last'.self.id_)) =>
        /\ last'.fin = NoExc
        /\ ser_mapping' = ser_mapping
        /\ serials' = serials ]_vars

(***************************************************************************)
(* Claims about devices that share a port.                                 *)
(***************************************************************************)
\* the call of d is between its first write and its return or raise
InCycle(d) ==
  /\ dev[d].pc \in {"send", "recv"}
  /\ dev[d].nwrites > 0 \/ dev[d].faulted

\* C1: while the sendRcv call of one device is between its first write and its
\* end, no other device on the same handle writes to or reads from it.
C1_Exclusive ==
  [][ \A a \in DOMAIN dev, b \in DOMAIN dev :
        (a # b /\ dev[a].ser = dev[b].ser /\ InCycle(a)
           /\ dev[b].pc \in {"send", "recv"}) => dev'[b] = dev[b] ]_vars

(***************************************************************************)
(* findSerialPumps.  disc is its frame: i, j index the port and the        *)
(* address of the running iteration, p is the local p (0: unbound),        *)
(* probes logs each iteration and how its three calls ended.               *)
(***************************************************************************)
\* Advance gone wrong: the address loop is the outer loop
AdvanceAddressMajor(i, j, nports, naddrs) ==
  IF i < nports THEN <<i + 1, j>> ELSE <<1, j + 1>>

\* `for port_path in listSerialPorts(): for addr in tecan_addrs:` the indices
\* of the iteration after (i, j)
Advance(i, j, nports, naddrs) ==
  IF j < naddrs THEN <<i, j + 1>> ELSE <<i + 1, 1>>

\* the loops are exhausted
Exhausted(i, j, nports, naddrs) == i > nports \/ j > naddrs

\* Swallowed gone wrong: TecanAPITimeout is not caught
SwallowedBusyOnly(e) == IsOSError(e) /\ e.errno = EBUSY

\* `except OSError as e: if e.errno != 16: raise` and
\* `except TecanAPITimeout: pass`
Swallowed(e) ==
  \/ IsOSError(e) /\ e.errno = EBUSY
  \/ e = TecanAPITimeout

\* the reference to device d is dropped (d = 0: there is none)
Drop(mapping, sers, devs, d) ==
  IF d = 0
  THEN [mapping |-> mapping, serials |-> sers, dev |-> devs, exc |-> NoExc]
  ELSE LET r == del(mapping, sers, devs[d])
       IN  [mapping |-> r.mapping, serials |-> r.serials,
            dev |-> Without(devs, d), exc |-> r.exc]

\* the iteration ends: the next one, or the exception leaves findSerialPumps
\* and its locals are dropped
AfterIteration(d, e) ==
  LET n == Advance(d.i, d.j, Len(listSerialPorts(platform)), Len(d.tecan_addrs))
  IN  IF e = NoExc \/ Swallowed(e)
      THEN [d EXCEPT !.pc = "scan", !.i = n[1], !.j = n[2]]
      ELSE [d EXCEPT !.pc = "raised", !.exc = e, !.p = 0]

\* a log entry: how __init__, sendRcv('?76') and sendRcv('&') ended
NotRun == Exc("notrun", 0)
Returned == Exc("returned", 0)
Probe(port, addr) ==
  [port |-> port, addr |-> addr, init |-> NotRun, cmd1 |-> NotRun, cmd2 |-> NotRun]
Outcome(e) == IF e = NoExc THEN Returned ELSE e
Mark(probes, field, v) ==
  [probes EXCEPT ![Len(probes)] =
     IF field = "init" THEN [@ EXCEPT !.init = v]
     ELSE IF field = "cmd1" THEN [@ EXCEPT !.cmd1 = v]
     ELSE [@ EXCEPT !.cmd2 = v]]

\* p = cls(addr, port_path, ser_baud, ser_timeout, max_attempts), and on
\* success the call p.sendRcv('?76')
DiscProbe ==
  /\ disc.pc = "scan"
  /\ ~Exhausted(disc.i, disc.j, Len(listSerialPorts(platform)), Len(disc.tecan_addrs))
  /\ \E open \in line.faults \cup {NoExc} :
       LET port == listSerialPorts(platform)[disc.i]
           addr == disc.tecan_addrs[disc.j]
           self == NewDev(ClsOf(platform), next_id, addr, port, disc.cfg)
           r == registerSer(ser_mapping, serials, self, open)
           probes == Mark(Append(disc.probes, Probe(port, addr)), "init", Outcome(r.exc))
       IN  IF r.exc = NoExc
           THEN \* p is rebound: the device it named before is finalized
                LET f == Drop(r.mapping, r.serials, dev, disc.p)
                IN  /\ ser_mapping' = f.mapping
                    /\ serials' = f.serials
                    /\ dev' = With(f.dev, next_id,
                                   StartCall([self EXCEPT !.ser = r.ser], CmdConfig))
                    /\ disc' = [disc EXCEPT !.p = next_id, !.pc = "cmd1",
                                            !.probes = probes]
                    /\ last' = [op |-> "init", self |-> self, exc |-> NoExc,
                                fin |-> f.exc]
           ELSE \* __init__ raised: the new object is finalized, p stays
                LET f == del(r.mapping, r.serials, self)
                    d == AfterIteration([disc EXCEPT !.probes = probes], r.exc)
                    g == Drop(f.mapping, f.serials, dev,
                              IF d.pc = "raised" THEN disc.p ELSE 0)
                IN  /\ ser_mapping' = g.mapping
                    /\ serials' = g.serials
                    /\ dev' = g.dev
                    /\ disc' = d
                    /\ last' = [op |-> "init", self |-> self, exc |-> r.exc,
                                fin |-> f.exc]
  /\ next_id' = next_id + 1
  /\ UNCHANGED <<platform, line, script>>

\* DiscCmdDone gone wrong: '&' is sent also when '?76' timed out
DiscCmdDoneSendsAnyway ==
  /\ disc.pc \in {"cmd1", "cmd2"}
  /\ dev[disc.p].pc = "done"
  /\ LET me == dev[disc.p]
         probes == Mark(disc.probes, disc.pc, Outcome(me.exc))
         d == [disc EXCEPT !.probes = probes]
     IN  IF me.exc \in {NoExc, TecanAPITimeout} /\ disc.pc = "cmd1"
         THEN \* config = ...['data']; fw_version = p.sendRcv('&')
              /\ disc' = [d EXCEPT !.config = me.ret.data, !.pc = "cmd2"]
              /\ dev' = [dev EXCEPT ![disc.p] = StartCall(@, CmdFirmware)]
              /\ UNCHANGED <<ser_mapping, serials>>
         ELSE IF me.exc = NoExc
         THEN \* found_devices.append((port_path, config, fw_version))
              /\ disc' = AfterIteration(
                   [d EXCEPT !.found_devices =
                      Append(@, <<me.ser_port, disc.config, me.ret.data>>)], NoExc)
              /\ UNCHANGED <<ser_mapping, serials, dev>>
         ELSE LET a == AfterIteration(d, me.exc)
                  g == Drop(ser_mapping, serials, dev,
                            IF a.pc = "raised" THEN disc.p ELSE 0)
              IN  /\ disc' = a
                  /\ ser_mapping' = g.mapping
                  /\ serials' = g.serials
                  /\ dev' = g.dev
  /\ UNCHANGED <<platform, next_id, last, line, script>>

\* p.sendRcv('?76') or p.sendRcv('&') has ended
DiscCmdDone ==
  /\ disc.pc \in {"cmd1", "cmd2"}
  /\ dev[disc.p].pc = "done"
  /\ LET me == dev[disc.p]
         probes == Mark(disc.probes, disc.pc, Outcome(me.exc))
         d == [disc EXCEPT !.probes = probes]
     IN  IF me.exc = NoExc /\ disc.pc = "cmd1"
         THEN \* config = ...['data']; fw_version = p.sendRcv('&')
              /\ disc' = [d EXCEPT !.config = me.ret.data, !.pc = "cmd2"]
              /\ dev' = [dev EXCEPT ![disc.p] = StartCall(@, CmdFirmware)]
              /\ UNCHANGED <<ser_mapping, serials>>
         ELSE IF me.exc = NoExc
         THEN \* found_devices.append((port_path, config, fw_version))
              /\ disc' = AfterIteration(
                   [d EXCEPT !.found_devices =
                      Append(@, <<me.ser_port, disc.config, me.ret.data>>)], NoExc)
              /\ UNCHANGED <<ser_mapping, serials, dev>>
         ELSE LET a == AfterIteration(d, me.exc)
                  g == Drop(ser_mapping, serials, dev,
                            IF a.pc = "raised" THEN disc.p ELSE 0)
              IN  /\ disc' = a
                  /\ ser_mapping' = g.mapping
                  /\ serials' = g.serials
                  /\ dev' = g.dev
  /\ UNCHANGED <<platform, next_id, last, line, script>>

\* return found_devices: the local p is dropped
DiscReturn ==
  /\ disc.pc = "scan"
  /\ Exhausted(disc.i, disc.j, Len(listSerialPorts(platform)), Len(disc.tecan_addrs))
  /\ LET g == Drop(ser_mapping, serials, dev, disc.p)
     IN  /\ ser_mapping' = g.mapping
         /\ serials' = g.serials
         /\ dev' = g.dev
  /\ disc' = [disc EXCEPT !.pc = "returned", !.p = 0]
  /\ UNCHANGED <<platform, next_id, last, line, script>>

\* the transport of a scan: ports may be busy or refuse, pumps answer or not
DiscLine ==
  [ faults |-> {Exc("OSError", EBUSY), Exc("OSError", OtherErrno)},
    replies |-> {<<>>, GoodReply}, noise |-> {} ]

\* findSerialPumps(tecan_addrs, 9600, 0.2, 2) is called on an empty registry
InitDisc ==
  /\ platform \in Platforms
  /\ ser_mapping = EmptyMapping
  /\ serials = <<>>
  /\ dev = <<>>
  /\ next_id = 1
  /\ \E addrs \in {<<0>>, <<0, 1>>} :
       disc = [NoDisc EXCEPT !.pc = "scan", !.tecan_addrs = addrs,
                             !.cfg = Cfg(9600, 200, DefaultAttempts),
                             !.i = 1, !.j = 1]
  /\ last = NoLast
  /\ line = DiscLine
  /\ script = NoScript

NextDisc ==
  \/ DiscProbe
  \/ DiscCmdDone
  \/ DiscReturn
  \/ \E d \in DOMAIN dev : Step(d)

SpecDisc == InitDisc /\ [][NextDisc]_vars

(***************************************************************************)
(* Claims about findSerialPumps.                                           *)
(***************************************************************************)
\* both commands of the iteration returned a Response
BothReturned(pr) == pr.cmd1 = Returned /\ pr.cmd2 = Returned
\* the ports of the result tuples are, in order, the ports of the iterations
\* whose two commands returned
FoundInProbeOrder ==
  LET hits == SelectSeq(disc.probes, BothReturned)
  IN  /\ Len(disc.found_devices) = Len(hits)
      /\ \A k \in 1..Len(hits) : disc.found_devices[k][1] = hits[k].port
\* the exceptions an iteration ended with
Raised(pr) == {pr.init, pr.cmd1, pr.cmd2} \ {NotRun, Returned}

\* C7: a resource-busy OSError never ends the scan, so findSerialPumps raises
\* only an OSError whose errno is not 16; such an OSError ends the scan in the
\* iteration it occurs in.
C7_BusySwallowed ==
  /\ disc.pc = "raised" => IsOSError(disc.exc) /\ disc.exc.errno # EBUSY
  /\ \A k \in 1..Len(disc.probes) :
       \A e \in Raised(disc.probes[k]) :
         (IsOSError(e) /\ e.errno # EBUSY) =>
           k = Len(disc.probes) /\ disc.pc = "raised" /\ disc.exc = e

\* a sendRcv call of the scan has just ended in TecanAPITimeout
TimedOut ==
  /\ disc.pc \in {"cmd1", "cmd2"}
  /\ dev[disc.p].pc = "done"
  /\ dev[disc.p].exc = TecanAPITimeout

\* C8: a TecanAPITimeout of either command is swallowed: the scan goes on with
\* the next pair, nothing is appended and nothing is raised; and the result
\* holds a tuple for a pair exactly when both its commands returned.
C8_TimeoutSwallowed ==
  /\ []FoundInProbeOrder
  /\ [][ TimedOut =>
           /\ disc'.pc = "scan"
           /\ disc'.exc = NoExc
           /\ disc'.found_devices = disc.found_devices
           /\ <<disc'.i, disc'.j>> =
                IF disc.j < Len(disc.tecan_addrs) THEN <<disc.i, disc.j + 1>>
                ELSE <<disc.i + 1, 1>> ]_vars

\* the scan returned; one pair timed out and a later pair was found
C8_Witness ==
  /\ disc.pc = "returned"
  /\ \E k \in 1..Len(disc.probes), n \in 1..Len(disc.probes) :
       /\ k < n
       /\ TecanAPITimeout \in Raised(disc.probes[k])
       /\ BothReturned(disc.probes[n])

\* the k-th pair of the port-major, address-minor enumeration
PairAt(k) ==
  LET naddrs == Len(disc.tecan_addrs)
  IN  << listSerialPorts(platform)[((k - 1) \div naddrs) + 1],
         disc.tecan_addrs[((k - 1) % naddrs) + 1] >>

\* C9: the pairs are probed port-major, address-minor (the k-th probe is the
\* k-th pair of that enumeration) and the result keeps the probe order.
C9_PortMajor ==
  /\ \A k \in 1..Len(disc.probes) :
       <<disc.probes[k].port, disc.probes[k].addr>> = PairAt(k)
  /\ LET hits == SelectSeq(disc.probes, BothReturned)
     IN  /\ Len(disc.found_devices) = Len(hits)
         /\ \A k \in 1..Len(hits) :
              disc.found_devices[k] =
                <<hits[k].port, parseFrame(GoodReply).data, parseFrame(GoodReply).data>>

\* two ports with two addresses each were scanned, with a pump found on each port
C9_Witness ==
  /\ disc.pc = "returned"
  /\ Len(disc.probes) = 4
  /\ \E a \in 1..Len(disc.found_devices), b \in 1..Len(disc.found_devices) :
       a < b /\ disc.found_devices[a][1] # disc.found_devices[b][1]

(***************************************************************************)
(* Claims about the frame on the wire.                                     *)
(***************************************************************************)
\* 02 31 31 3F 37 36 03 63
ExampleFrame == <<2, 49, 49, 63, 55, 54, 3, 99>>

\* C11: the frame for address 0 and payload '?76' is 02 31 31 3F 37 36 03 63,
\* and its last byte, 0x63, is the checksum: the XOR of the 7 bytes before it.
C11_ExampleFrame ==
  /\ OEMcommand = ExampleFrame
  /\ (script.pc = "written" /\ script.OEMcommand = OEMcommand) =>
       /\ script.i = 7
       /\ script.checksum = ExampleFrame[8]

(***************************************************************************)
(* Claims about the shared transport handle.                               *)
(***************************************************************************)
\* the handles on port p that are open
OpenOn(p) == {h \in 1..Len(serials) : serials[h].port = p /\ serials[h].open}
\* the registry entry of class c for port p is complete
Complete(c, p) == ser_mapping[c][p].present /\ "_devices" \in ser_mapping[c][p].keys

\* C12: devices registered on one port share one transport: the port has one
\* open handle, the one of its registry entry, and every device alive on the
\* port refers to it; the registration that creates the entry opens the
\* transport, every later successful registration on the port opens nothing.
C12_SharedTransport ==
  /\ [](\A p \in PortsOf(platform) :
         Complete(ClsOf(platform), p) =>
           /\ OpenOn(p) = {ser_mapping[ClsOf(platform)][p].ser}
           /\ \A d \in DOMAIN dev :
                dev[d].ser_port = p => dev[d].ser = ser_mapping[ClsOf(platform)][p].ser)
  /\ [][ (Constructed /\ last'.exc = NoExc) =>
          IF EntryOf(ser_mapping, last'.self).present
          THEN serials' = serials
          ELSE /\ Len(serials') = Len(serials) + 1
               /\ SubSeq(serials', 1, Len(serials)) = serials ]_vars

\* two devices alive on one port hold the same handle
C12_Witness ==
  \E a \in DOMAIN dev, b \in DOMAIN dev :
    /\ a # b
    /\ dev[a].ser_port = dev[b].ser_port
    /\ dev[a].ser = dev[b].ser
    /\ serials[dev[a].ser].open
    /\ Len(EntryOf(ser_mapping, dev[a]).devices) = 2

(***************************************************************************)
(* Claims about the commands of a scan.                                    *)
(***************************************************************************)
\* this step wrote a frame of device d to the transport
Wrote(d) == d \in DOMAIN dev /\ d \in DOMAIN dev' /\ dev'[d].nwrites = dev[d].nwrites + 1

\* C17: for each pair the scan sends '?76' first and '&' second, on the device
\* it constructed for the pair; '&' is sent only after '?76' returned a
\* Response, and no '&' frame is written for a pair whose '?76' timed out.
C17_ConfigThenFirmware ==
  /\ [](\A k \in 1..Len(disc.probes) :
         /\ disc.probes[k].cmd2 # NotRun => disc.probes[k].cmd1 = Returned
         /\ disc.probes[k].cmd1 # NotRun => disc.probes[k].init = Returned
         /\ disc.probes[k].cmd1 = TecanAPITimeout => disc.probes[k].cmd2 = NotRun)
  /\ [](disc.pc \in {"cmd1", "cmd2"} =>
         /\ dev[disc.p].cmd = (IF disc.pc = "cmd1" THEN <<63, 55, 54>> ELSE <<38>>)
         /\ dev[disc.p].addr = disc.probes[Len(disc.probes)].addr
         /\ dev[disc.p].ser_port = disc.probes[Len(disc.probes)].port
         /\ disc.pc = "cmd2" => disc.probes[Len(disc.probes)].cmd1 = Returned)
  /\ [][ /\ (disc.pc = "cmd1" /\ disc'.pc = "cmd2") => disc'.p = disc.p
         /\ \A d \in DOMAIN dev :
              Wrote(d) =>
                /\ d = disc.p
                /\ disc.pc \in {"cmd1", "cmd2"}
                /\ dev'[d].wrote =
                     Frame(<<AddrBase + disc.probes[Len(disc.probes)].addr>> \o
                           (IF disc.probes[Len(disc.probes)].cmd1 = Returned
                            THEN <<38>> ELSE <<63, 55, 54>>)) ]_vars

\* in one scan '?76' timed out for one pair, and for a later pair both
\* commands were sent and returned
C17_Witness ==
  \E k \in 1..Len(disc.probes), n \in 1..Len(disc.probes) :
    /\ k < n
    /\ disc.probes[k].cmd1 = TecanAPITimeout
    /\ disc.probes[k].cmd2 = NotRun
    /\ disc.probes[n].cmd1 = Returned
    /\ disc.probes[n].cmd2 = Returned

(***************************************************************************)
(* Claims about the shape of the registry.                                 *)
(***************************************************************************)
\* C18: every key of the registry maps to a complete entry: a config, an open
\* transport handle and a member list that is not empty, also after a
\* registration whose open raised; so a registration on a port whose earlier
\* open raised tries to open the transport, like a first registration.
C18_WellFormed ==
  /\ [](\A c \in Classes, p \in AllPorts :
         ser_mapping[c][p].present =>
           /\ ser_mapping[c][p].keys = {"info", "_ser", "_devices"}
           /\ ser_mapping[c][p].ser \in 1..Len(serials)
           /\ serials[ser_mapping[c][p].ser].open
           /\ ser_mapping[c][p].devices # <<>>)
  /\ [][ (Constructed /\ ~Complete(last'.self.cls, last'.self.ser_port)) =>
          last'.exc \in Faults \cup {NoExc} ]_vars

(***************************************************************************)
(* Claims about what a scan leaves behind.                                 *)
(***************************************************************************)
\* the places of all member lists of the registry
Members ==
  { t \in Classes \X AllPorts \X (1..next_id) :
      t[3] <= Len(ser_mapping[t[1]][t[2]].devices) }

\* C19: when findSerialPumps, called on an empty registry, has returned or
\* raised, the registry is empty again, no device of the scan is alive or a
\* member of a port, and every handle the scan opened has been closed; during
\* the scan at most two of its devices are registered at a time.
C19_RegistryRestored ==
  /\ disc.pc \in {"returned", "raised"} =>
       /\ ser_mapping = EmptyMapping
       /\ dev = <<>>
       /\ \A h \in 1..Len(serials) : ~serials[h].open /\ serials[h].closes = 1
  /\ Cardinality(Members) <= 2
  /\ Cardinality(DOMAIN dev) <= 2

(***************************************************************************)
(* Claims about registration by concurrent threads.                        *)
(***************************************************************************)
\* no constructor or finalizer is running
Quiescent == \A d \in DOMAIN dev : dev[d].pc = "idle"

\* C20: when two devices with the same config register on a port that has no
\* entry at the same time, or one registers while the only member of the port
\* deregisters, no registration fails unless the transport raised; and once the
\* threads are done every device is in the member list of the complete entry of
\* its port and holds that entry's handle, which is open, every open handle
\* belongs to an entry, and no port has two open handles.
C20_RaceSafe ==
  /\ (line.faults = {} /\ last.op = "init") => last.exc = NoExc
  /\ Quiescent =>
       /\ \A d \in DOMAIN dev :
            /\ Complete(dev[d].cls, dev[d].ser_port)
            /\ Has(EntryOf(ser_mapping, dev[d]).devices, d)
            /\ dev[d].ser = EntryOf(ser_mapping, dev[d]).ser
            /\ dev[d].ser \in 1..Len(serials)
            /\ serials[dev[d].ser].open
       /\ \A h \in 1..Len(serials) :
            serials[h].open =>
              \E c \in Classes, p \in AllPorts :
                Complete(c, p) /\ ser_mapping[c][p].ser = h
       /\ \A p \in AllPorts : Cardinality(OpenOn(p)) <= 1

====
